---- MODULE Spec2Model ----
(***************************************************************************)
(* The reload path of meshviewer.py: the Controller's single-slot mailbox  *)
(* (reload_file under reload_lock), the poll loop file_reloader on the Tk  *)
(* thread, the handler chain (Default / Scad / Python reload), and the     *)
(* watchdog sessions (follow, on_modified) with their debounce clock.      *)
(*                                                                         *)
(* Threads: "ui" is the Tk main loop, which runs Controller.open and the   *)
(* file_reloader callbacks one at a time; every handler that has a running *)
(* Observer has one dispatch thread, named by the handler, which runs      *)
(* on_modified for the queued events one at a time.                        *)
(*                                                                         *)
(* Left out, and so assumed not to happen: the file dialog is cancelled    *)
(* (askopenfilename returns ""), Controller.exit is called, and            *)
(* Observer.schedule or Observer.start fails.  The view and the mesh data  *)
(* are reduced to the path of the file the scene shows.  watchdog's        *)
(* BaseObserver.unschedule(watch) looks the watch up in a dictionary keyed *)
(* by the ObservedWatch objects schedule returned, and raises KeyError for *)
(* anything else; an exception that leaves on_modified ends the dispatch   *)
(* thread; an exception that leaves a Tk callback is reported by Tk and    *)
(* the main loop goes on.                                                  *)
(***************************************************************************)
EXTENDS Integers, Sequences, FiniteSets, TLC

\* ---------------------------------------------------------------- bounds
\* A run is bounded by its inputs (calls of Controller.open plus filesystem
\* events) and by the steps of its clock.  Spec is the widest in inputs,
\* SpecWatch follows sessions over a longer time, SpecFair is the one checked
\* for liveness.
MaxInputs == 3
MaxClockSteps == 2
MaxWatchInputs == 3
MaxWatchClockSteps == 5
MaxFairInputs == 2
MaxFairClockSteps == 2

\* ------------------------------------------------------ program constants
UI_RELOAD_TIME == 1000
MINIMUM_RELOAD_TIME == UI_RELOAD_TIME

\* One step of the clock is within the debounce window, two are past it.
ClockStep == MINIMUM_RELOAD_TIME \div 2 + 1

\* ------------------------------------------------------------------ paths
\* A path is (parent directory, stem, suffix); pathlib reads the three apart.
Path(d, s, x) == [dir |-> d, stem |-> s, suffix |-> x]
NoPath == Path("", "", "")
DirPath(d) == Path(d, "", "")
Parent(p) == p.dir
WithStem(p, s) == [p EXCEPT !.stem = s]
WithSuffix(p, x) == [p EXCEPT !.suffix = x]
\* A truth test that everything passes.
AlwaysTruthy(p) == TRUE

\* Python truth value of the mailbox content: None is false, a path is true.
Truthy(p) == p # NoPath

\* What the file dialog can return.
OpenChoices ==
    { Path("a", "mesh", ".stl"), Path("b", "mesh", ".stl"),
      Path("a", "shape", ".scad"), Path("a", "model", ".py") }
\* Model.__init__ without a file name builds the unit cube.
UnitCube == Path("", "unit cube", "")
TempScad(p) == WithSuffix(WithStem(p, "solidpython_temp"), ".scad")
TempStl(p) == WithSuffix(WithStem(p, "solidpython_temp"), ".stl")

\* ----------------------------------------------------------------- meshes
\* What a mesh file holds (vispy.io.read_mesh) and what Mesh keeps: the
\* vertices, a position per index from 0, and the faces, each a tuple of
\* vertex indices.  The meshes followed here have the vertices
\* 0..MaxVertexIndex, moved as a whole by a shift of 0..MaxShift, and up to
\* MaxFaces triangles; a scene holds up to MaxMeshes meshes.
MaxVertexIndex == 3
MaxShift == 1
MaxFaces == 2
MaxMeshes == 2

\* A Python list or array row by row, indexed from 0.
ZeroBased(rows) == [i \in 0..(Len(rows) - 1) |-> rows[i + 1]]
Size(vertices) == Cardinality(DOMAIN vertices)
Elements(s) == { s[i] : i \in DOMAIN s }
Min(S) == CHOOSE x \in S : \A y \in S : x <= y
Max(S) == CHOOSE x \in S : \A y \in S : x >= y

\* Model.__init__(file_name=None): the unit cube.
UnitCubeMesh ==
    [vertices |-> ZeroBased(<< << 0, 1, 0 >>, << 1, 1, 0 >>, << 1, 0, 0 >>,
                               << 0, 0, 0 >>, << 1, 0, 1 >>, << 0, 0, 1 >>,
                               << 1, 1, 1 >>, << 0, 1, 1 >> >>),
     faces |-> << << 0, 1, 2 >>, << 0, 2, 3 >>, << 2, 4, 5 >>, << 2, 5, 3 >>,
                  << 4, 2, 1 >>, << 4, 1, 6 >>, << 6, 1, 0 >>, << 6, 0, 7 >>,
                  << 3, 5, 7 >>, << 3, 7, 0 >>, << 6, 5, 4 >>, << 6, 7, 5 >> >>]

\* The mesh files a run can read: every vertex has a position of its own,
\* and the triangles are the runs of three consecutive indices, and the
\* first of them turned over, so that faces share edges, run either way
\* along them, and leave vertices out.
Position(i, shift) == << i + shift, (2 * i) % 3, shift >>
VertexChoices ==
    { [i \in 0..MaxVertexIndex |-> Position(i, shift)] : shift \in 0..MaxShift }
FaceChoices ==
    LET n == MaxVertexIndex + 1 IN
    { << i, (i + 1) % n, (i + 2) % n >> : i \in 0..MaxVertexIndex }
        \cup { << 2, 1, 0 >> }
FaceLists == UNION { [1..k -> FaceChoices] : k \in 1..MaxFaces }
MeshChoices == { [vertices |-> v, faces |-> f] : v \in VertexChoices, f \in FaceLists }

\* Mesh.get_vertices: per face, the positions of its vertices.
get_all_vertices(vertices, faces) ==
    << [k \in 1..Size(vertices) |-> vertices[k - 1]] >>

get_vertices(vertices, faces) ==
    [f \in DOMAIN faces |-> [k \in DOMAIN faces[f] |-> vertices[faces[f][k]]]]

\* Mesh.get_bounding_box: per axis, [min, max] over the positions
\* get_vertices returns.
Mesh_get_bounding_box(vertices, faces) ==
    LET per_face == get_vertices(vertices, faces)
        v == UNION { Elements(per_face[f]) : f \in DOMAIN per_face }
    IN [i \in 1..Len(vertices[0]) |->
           LET x_i == { p[i] : p \in v } IN << Min(x_i), Max(x_i) >>]

\* Mesh.__init__
Mesh(vertices, faces) ==
    [vertices |-> vertices, faces |-> faces,
     bounding_box |-> Mesh_get_bounding_box(vertices, faces)]

\* edge[k] - 1 where edge[k] is an element of faces.  With signed arithmetic
\* (Python integers, a signed dtype, NumPy 1 scalars) 0 - 1 is -1; with
\* uint32 arithmetic (the unit cube's dtype under NumPy 2) it wraps to
\* 2^32 - 1, which is beyond every array; TLC's integers end at 2^31 - 1,
\* which is beyond every array too and stands for it here.
Arithmetics == {"signed", "uint32"}
TooLarge == 2147483647
MinusOne(iv, arithmetic) ==
    IF iv = 0 /\ arithmetic = "uint32" THEN TooLarge ELSE iv - 1

\* vertices[k]: a negative k counts from the end, anything outside raises
\* IndexError.
InRange(vertices, k) == 0 - Size(vertices) <= k /\ k < Size(vertices)
GetItem(vertices, k) == IF k < 0 THEN vertices[Size(vertices) + k] ELSE vertices[k]

\* The set get_line_segments collects: per face, each pair of cyclically
\* consecutive indices as (lower, higher).
Edge(iv, jv) == IF jv > iv THEN << iv, jv >> ELSE << jv, iv >>
line_segments(faces) ==
    UNION { { Edge(faces[f][i], faces[f][(i % Len(faces[f])) + 1]) :
                i \in DOMAIN faces[f] } : f \in DOMAIN faces }

\* Mesh.get_line_segments: one list element per collected edge, kept with
\* the edge it was made from (the list is in the set's iteration order); or
\* the IndexError of the first lookup that is out of range.
get_line_segments(mesh, arithmetic) ==
    LET at(k) == MinusOne(k, arithmetic)
        edges == line_segments(mesh.faces)
    IN IF \E edge \in edges : \E k \in 1..2 : ~InRange(mesh.vertices, at(edge[k]))
       THEN [raised |-> TRUE, value |-> {}]
       ELSE [raised |-> FALSE,
             value |-> { [edge |-> edge,
                          segment |-> << GetItem(mesh.vertices, at(edge[1])),
                                         GetItem(mesh.vertices, at(edge[2])) >>] :
                         edge \in edges }]

\* Model.get_bounding_box: bbox is data[0].bounding_box itself, widened in
\* place by the boxes of the other meshes.
RECURSIVE Widen(_, _, _)
Widen(bbox, data, from) ==
    IF from > Len(data) THEN bbox
    ELSE Widen([i \in DOMAIN bbox |->
                   LET x_i == Elements(data[from].bounding_box[i]) IN
                   << Min({bbox[i][1], Min(x_i)}), Max({bbox[i][2], Max(x_i)}) >>],
               data, from + 1)

\* --------------------------------------------------------------- handlers
Handlers == {"Default", "Scad", "Python"}
UI == "ui"
Free == "free"
Threads == {UI} \cup Handlers

\* Controller.__init__: file_handlers, a defaultdict keyed by suffix.
file_handlers == [x \in {".py", ".scad"} |-> IF x = ".py" THEN "Python" ELSE "Scad"]
get_file_handler(path) ==
    IF path.suffix \in DOMAIN file_handlers
    THEN file_handlers[path.suffix]
    ELSE "Default"

NoTime == 0 - 1

\* watchdog's ObservedWatch: the directory and the recursive flag.
Watch(dir_path) == [watch_path |-> dir_path, recursive |-> FALSE]
NoWatch == Watch(NoPath)

VARIABLES
    now,            \* the wall clock, in ms
    reload_lock,    \* Controller.reload_lock: Free or the thread holding it
    reload_file,    \* Controller.reload_file: NoPath or the pending path
    file_handler,   \* Controller.file_handler ("" before the first open)
    file_name,      \* open's local: what the dialog returned
    pending,        \* file_reloader callbacks scheduled with root_frame.after
    th,             \* per thread: [pc, path], where it is in the code and
                    \* the path it is working on
    observer,       \* per handler: index into observers, 0 for None
    observed_file,  \* per handler
    observed_path,  \* per handler
    observer_watch, \* per handler: the ObservedWatch returned by schedule
    last_reload,    \* per handler: the debounce clock
    observers,      \* the Observer objects created so far
    queue,          \* per handler: events its observer has still to dispatch
    scene,          \* Model.data, as the files the meshes were read from
    file_mesh,      \* what vispy.io.read_mesh reads: [vertices, faces]
    data,           \* Model.data: the Mesh objects of the scene
    ret,            \* the last call of a Mesh or Model query and its result
    \* history, read by the properties only
    n_opens,        \* calls of Controller.open so far
    follows,        \* follow calls that ended: [h, path, ok, obs], obs the
                    \* handler's observer when the call ended
    mail_seq,       \* number of the write now in the mailbox, 0 if none
    writes,         \* writes into the mailbox so far: [path, by]
    superseded,     \* numbers of the writes overwritten while still pending
    loads,          \* loads that succeeded: [seq, path], seq the number of
                    \* the write that asked for it
    load_failed,    \* a load has raised inside file_reloader
    last_tick,      \* what the last file_reloader call did
    handled         \* events dispatched to on_modified so far

vars == << now, reload_lock, reload_file, file_handler, file_name, pending, th, observer,
           observed_file, observed_path, observer_watch, last_reload,
           observers, queue, scene, n_opens, follows, mail_seq, writes,
           superseded, loads, load_failed, last_tick, handled,
           file_mesh, data, ret >>

MeshVars == << file_mesh, data, ret >>
ControllerVars ==
    << now, reload_lock, reload_file, file_handler, file_name, pending, th, observer,
       observed_file, observed_path, observer_watch, last_reload,
       observers, queue, scene, n_opens, follows, mail_seq, writes,
       superseded, loads, load_failed, last_tick, handled >>

Idle == [pc |-> "idle", path |-> NoPath]
NoCall == [call |-> "none"]

\* Controller.__init__ and the handlers' __init__.
ControllerInit ==
    /\ now = 0
    /\ reload_lock = Free
    /\ reload_file = NoPath
    /\ file_handler = ""
    /\ file_name = NoPath
    /\ pending = 0
    /\ th = [t \in Threads |-> Idle]
    /\ observer = [h \in Handlers |-> 0]
    /\ observed_file = [h \in Handlers |-> NoPath]
    /\ observed_path = [h \in Handlers |-> NoPath]
    /\ observer_watch = [h \in Handlers |-> NoWatch]
    /\ last_reload = [h \in Handlers |-> NoTime]
    /\ observers = << >>
    /\ queue = [h \in Handlers |-> << >>]
    /\ scene = << UnitCube >>
    /\ n_opens = 0
    /\ follows = << >>
    /\ mail_seq = 0
    /\ writes = << >>
    /\ superseded = {}
    /\ loads = << >>
    /\ load_failed = FALSE
    /\ last_tick = "none"
    /\ handled = << >>

\* App.__init__: Model() holds the unit cube.  Every mesh file read in a run
\* of the controller holds that geometry too.
Init ==
    /\ ControllerInit
    /\ file_mesh = UnitCubeMesh
    /\ data = << Mesh(UnitCubeMesh.vertices, UnitCubeMesh.faces) >>
    /\ ret = NoCall


SetThread(t, rec) == [th EXCEPT ![t] = rec]

\* --------------------------------------------------------- handler chain
\* A chain in which every handler reloads as the default one does.
EnterReloadDefault(cls, file_path) == [pc |-> "acquire", path |-> file_path]

\* Where the reload(file_path) of class cls starts: PythonFileHandler.reload
\* executes the module, ScadFileHandler.reload runs the compiler,
\* DefaultFileHandler.reload goes for the lock.
EnterReload(cls, file_path) ==
    [pc |-> IF cls = "Python" THEN "exec"
            ELSE IF cls = "Scad" THEN "compile" ELSE "acquire",
     path |-> file_path]

\* An exception leaves the running callback.  On the Tk thread the callback
\* (Controller.open) is abandoned and the main loop goes on; on an observer's
\* dispatch thread nothing catches it and the thread ends.
Raise(t) == IF t = UI THEN Idle ELSE [pc |-> "dead", path |-> NoPath]

\* Where a thread goes when reload returns: open goes on to
\* follow(file_name), on_modified returns to the dispatch loop.
ReturnFromReload(t) ==
    IF t = UI THEN [pc |-> "follow", path |-> file_name]
    ELSE Idle

Ghosts == << n_opens, follows, mail_seq, writes, superseded, loads, load_failed,
             last_tick, handled >>
WatchVars == << observer, observed_file, observed_path, observer_watch,
                last_reload, observers, queue >>
MailVars == << reload_lock, reload_file, mail_seq, writes, superseded >>

\* PythonFileHandler.reload, spec.loader.exec_module(foo): the script runs, or
\* raises (an error in it, or solidpython_model missing further down).
PyExec(t) ==
    /\ UNCHANGED MeshVars
    /\ th[t].pc = "exec"
    /\ \E ok \in BOOLEAN :
         th' = SetThread(t, IF ok THEN [th[t] EXCEPT !.pc = "render"] ELSE Raise(t))
    /\ UNCHANGED << now, file_handler, file_name, pending, scene >>
    /\ UNCHANGED << MailVars, WatchVars >>
    /\ UNCHANGED << n_opens, follows, loads, load_failed, last_tick, handled >>

\* PythonFileHandler.reload, scad_render_to_file and super().reload(new_file).
PyRender(t) ==
    /\ UNCHANGED MeshVars
    /\ th[t].pc = "render"
    /\ th' = SetThread(t, EnterReload("Scad", TempScad(th[t].path)))
    /\ UNCHANGED << now, file_handler, file_name, pending, scene >>
    /\ UNCHANGED << MailVars, WatchVars >>
    /\ UNCHANGED << n_opens, follows, loads, load_failed, last_tick, handled >>

\* ScadFileHandler.reload: subprocess.run of openscad, then of
\* openscad-nightly if the first is not found.  run() is called without
\* check=True, so a non-zero exit status raises nothing; only a missing
\* executable (both names) raises.
CompileOutcomes == {"ok", "nonzero", "notfound"}
Compile(t) ==
    /\ UNCHANGED MeshVars
    /\ th[t].pc = "compile"
    /\ \E out \in CompileOutcomes :
         th' = SetThread(t, CASE out = "notfound" -> Raise(t)
                              [] out = "nonzero" -> [th[t] EXCEPT !.pc = "nonzero"]
                              [] OTHER -> EnterReload("Default", TempStl(th[t].path)))
    /\ UNCHANGED << now, file_handler, file_name, pending, scene >>
    /\ UNCHANGED << MailVars, WatchVars >>
    /\ UNCHANGED << n_opens, follows, loads, load_failed, last_tick, handled >>

\* ScadFileHandler.reload after a compiler run that exited with a non-zero
\* status: the CompletedProcess is dropped, "Converted scad file" is logged
\* and super().reload(new_file) is called as after a successful run.
IgnoreExitStatus(t) ==
    /\ UNCHANGED MeshVars
    /\ th[t].pc = "nonzero"
    /\ th' = SetThread(t, EnterReload("Default", TempStl(th[t].path)))
    /\ UNCHANGED << now, file_handler, file_name, pending, scene >>
    /\ UNCHANGED << MailVars, WatchVars >>
    /\ UNCHANGED << n_opens, follows, loads, load_failed, last_tick, handled >>

\* DefaultFileHandler.reload, reload_lock.acquire(blocking=True): waits
\* until the lock is free.
Acquire(t) ==
    /\ UNCHANGED MeshVars
    /\ th[t].pc = "acquire"
    /\ reload_lock = Free
    /\ reload_lock' = t
    /\ th' = SetThread(t, [th[t] EXCEPT !.pc = "locked"])
    /\ UNCHANGED << now, reload_file, file_handler, file_name, pending, scene >>
    /\ UNCHANGED << mail_seq, writes, superseded >>
    /\ UNCHANGED WatchVars
    /\ UNCHANGED << n_opens, follows, loads, load_failed, last_tick, handled >>

\* A mailbox that keeps a request it already holds (first write wins).
MailboxStoreIfEmpty(old, new) == IF old.path = NoPath THEN new ELSE old

\* The mailbox after reload_file = file_path: the new request replaces
\* whatever was there.  (A request is the path and, for the properties, the
\* number of the write that put it there.)
MailboxStore(old, new) == new

\* DefaultFileHandler.reload: self.controller.reload_file = file_path, then
\* release.
WriteRelease(t) ==
    /\ UNCHANGED MeshVars
    /\ th[t].pc = "locked"
    /\ LET old == [path |-> reload_file, seq |-> mail_seq]
           new == [path |-> th[t].path, seq |-> Len(writes) + 1]
           kept == MailboxStore(old, new)
       IN /\ reload_file' = kept.path
          /\ mail_seq' = kept.seq
          /\ superseded' = IF mail_seq # 0 /\ kept.seq # mail_seq
                           THEN superseded \cup {mail_seq} ELSE superseded
    /\ writes' = Append(writes, [path |-> th[t].path, by |-> t])
    /\ reload_lock' = Free
    /\ th' = SetThread(t, ReturnFromReload(t))
    /\ UNCHANGED << now, file_handler, file_name, pending, scene >>
    /\ UNCHANGED WatchVars
    /\ UNCHANGED << n_opens, follows, loads, load_failed, last_tick, handled >>


\* A handler's observer has been started and not stopped.
Running(h) == observer[h] # 0 /\ observers[observer[h]].state = "running"

\* Events queued so far in the run.
Delivered == Len(handled) + Len(queue["Default"]) + Len(queue["Scad"])
                 + Len(queue["Python"])

\* ------------------------------------------------------- Controller.open
\* open up to the call of reload: the dialog returns file_name, the handler
\* is looked up by suffix and becomes the current one, and its reload starts
\* on the Tk thread.
Open(f, max_inputs) ==
    /\ UNCHANGED MeshVars
    /\ th[UI].pc = "idle"
    /\ n_opens + Delivered < max_inputs
    /\ file_handler' = get_file_handler(f)
    /\ file_name' = f
    /\ th' = SetThread(UI, EnterReload(get_file_handler(f), f))
    /\ n_opens' = n_opens + 1
    /\ UNCHANGED << now, pending, scene >>
    /\ UNCHANGED << MailVars, WatchVars >>
    /\ UNCHANGED << follows, loads, load_failed, last_tick, handled >>

\* BaseObserver.unschedule(watch) looks the watch up among the observer's
\* scheduled watches and raises KeyError when it is not one of them.
UnscheduleRaises(obs, watch) == watch \notin obs.watches

\* What follow hands to unschedule: self.observed_file.
UnscheduleArgument(h) == observed_file[h]

\* BaseFileHandler.follow(observed_file), called by open on the current
\* handler.  join() returns once the old dispatch thread has ended.
Follow ==
    /\ UNCHANGED MeshVars
    /\ th[UI].pc = "follow"
    /\ LET h == file_handler
           file == file_name
           had == observer[h] # 0
           raises == had /\ UnscheduleRaises(observers[observer[h]], UnscheduleArgument(h))
           stopped == IF had
                      THEN [observers EXCEPT ![observer[h]] =
                               [@ EXCEPT !.watches = {}, !.state = "stopped"]]
                      ELSE observers
       IN IF raises
          THEN /\ th' = SetThread(UI, Raise(UI))
               /\ follows' = Append(follows, [h |-> h, path |-> file, ok |-> FALSE,
                                              obs |-> observer[h]])
               /\ UNCHANGED WatchVars
          ELSE /\ had => th[h].pc \in {"idle", "dead"}
               /\ observers' = Append(stopped,
                      [owner |-> h, watches |-> {Watch(DirPath(Parent(file)))},
                       state |-> "running"])
               /\ observer' = [observer EXCEPT ![h] = Len(observers) + 1]
               /\ observed_file' = [observed_file EXCEPT ![h] = file]
               /\ observed_path' = [observed_path EXCEPT ![h] = DirPath(Parent(file))]
               /\ observer_watch' = [observer_watch EXCEPT ![h] = Watch(DirPath(Parent(file)))]
               /\ last_reload' = [last_reload EXCEPT ![h] = now]
               /\ queue' = [queue EXCEPT ![h] = << >>]
               /\ th' = [th EXCEPT ![UI] = [pc |-> "reloader", path |-> NoPath],
                                   ![h] = Idle]
               /\ follows' = Append(follows, [h |-> h, path |-> file, ok |-> TRUE,
                                              obs |-> Len(observers) + 1])
    /\ UNCHANGED << now, file_handler, file_name, pending, scene >>
    /\ UNCHANGED MailVars
    /\ UNCHANGED << n_opens, loads, load_failed, last_tick, handled >>

\* ----------------------------------------------- Controller.file_reloader
\* An acquire that goes on whoever holds the lock.
TryAcquireAnyway == TRUE

\* reload_lock.acquire(blocking=False)
TryAcquire == reload_lock = Free

\* A file_reloader that schedules nothing.
AfterNothing(scheduled) == scheduled

\* root_frame.after(UI_RELOAD_TIME, self.file_reloader), the last line of
\* file_reloader: one more callback is scheduled.
After(scheduled) == scheduled + 1

\* The callbacks still scheduled while a call of file_reloader runs: a call
\* made by Tk has consumed one, the call at the end of open has not.
Consumed(from_timer) == IF from_timer THEN pending - 1 ELSE pending

\* file_reloader from its first line to the call of load_file_in_viewer, or
\* to its end when there is nothing to load or the lock is taken.
FileReloader ==
    /\ UNCHANGED MeshVars
    /\ \/ th[UI].pc = "reloader"
       \/ th[UI].pc = "idle" /\ pending > 0
    /\ LET from_timer == th[UI].pc = "idle" IN
       IF TryAcquire
       THEN IF Truthy(reload_file)
            THEN /\ reload_lock' = UI
                 /\ th' = SetThread(UI, [pc |-> "loading", path |-> reload_file])
                 /\ pending' = Consumed(from_timer)
                 /\ UNCHANGED << reload_file, mail_seq, last_tick >>
            ELSE /\ reload_file' = NoPath
                 /\ mail_seq' = 0
                 /\ reload_lock' = Free
                 /\ th' = SetThread(UI, Idle)
                 /\ pending' = After(Consumed(from_timer))
                 /\ last_tick' = "empty"
       ELSE /\ th' = SetThread(UI, Idle)
            /\ pending' = After(Consumed(from_timer))
            /\ last_tick' = "skipped"
            /\ UNCHANGED << reload_lock, reload_file, mail_seq >>
    /\ UNCHANGED << now, file_handler, file_name, scene >>
    /\ UNCHANGED << writes, superseded >>
    /\ UNCHANGED WatchVars
    /\ UNCHANGED << n_opens, follows, loads, load_failed, handled >>

\* load_file_in_viewer(self.reload_file) and the rest of file_reloader.  The
\* scene is cleared first; read_mesh or Mesh may raise, and then nothing
\* below the call runs: no clear of the mailbox, no release, no after().
LoadDone ==
    /\ th[UI].pc = "loading"
    /\ \E ok \in BOOLEAN :
         IF ok
         THEN /\ scene' = << th[UI].path >>
              /\ data' = << Mesh(file_mesh.vertices, file_mesh.faces) >>
              /\ loads' = Append(loads, [seq |-> mail_seq, path |-> th[UI].path])
              /\ reload_file' = NoPath
              /\ mail_seq' = 0
              /\ reload_lock' = Free
              /\ pending' = After(pending)
              /\ last_tick' = "loaded"
              /\ UNCHANGED load_failed
         ELSE /\ scene' = << >>
              /\ data' = << >>
              /\ load_failed' = TRUE
              /\ last_tick' = "failed"
              /\ UNCHANGED << loads, reload_file, mail_seq, reload_lock, pending >>
    /\ th' = SetThread(UI, Idle)
    /\ UNCHANGED << now, file_handler, file_name, file_mesh, ret >>
    /\ UNCHANGED << writes, superseded >>
    /\ UNCHANGED WatchVars
    /\ UNCHANGED << n_opens, follows, handled >>


\* ------------------------------------------------------------ the watcher
\* What the observer of handler h can be told about: the watch is on the
\* parent directory, not recursive, so the followed file, its siblings (here
\* the generated mesh file) and the directory itself.
EventChoices(h) ==
    LET f == observed_file[h] IN
    { [is_file |-> TRUE, src_path |-> f],
      [is_file |-> TRUE, src_path |-> TempStl(f)],
      [is_file |-> FALSE, src_path |-> observed_path[h]] }

\* The emitter thread of h's observer queues a modification event.
Arrive(h, ev, max_inputs) ==
    /\ UNCHANGED MeshVars
    /\ Running(h)
    /\ th[h].pc # "dead"
    /\ n_opens + Delivered < max_inputs
    /\ queue' = [queue EXCEPT ![h] =
                    Append(@, [is_file |-> ev.is_file, src_path |-> ev.src_path,
                               arr |-> now])]
    /\ UNCHANGED << now, file_handler, file_name, pending, th, scene >>
    /\ UNCHANGED MailVars
    /\ UNCHANGED << observer, observed_file, observed_path, observer_watch,
                    last_reload, observers >>
    /\ UNCHANGED Ghosts

\* A filter on the watched directory instead of the followed file.
IsInObservedDirectory(h, ev) ==
    ev.is_file /\ Parent(ev.src_path) = Parent(observed_file[h])

\* on_modified: isinstance(event, FileModifiedEvent) and
\* event.src_path == self.observed_file
IsObservedFile(h, ev) == ev.is_file /\ ev.src_path = observed_file[h]

\* on_modified: now - self.last_reload > MINIMUM_RELOAD_TIME
PastDebounce(t, last) == t - last > MINIMUM_RELOAD_TIME

\* DefaultFileHandler.on_modified(event) on h's dispatch thread, up to the
\* call of self.reload(event.src_path).
OnModified(h) ==
    /\ UNCHANGED MeshVars
    /\ Running(h)
    /\ th[h].pc = "idle"
    /\ queue[h] # << >>
    /\ LET ev == Head(queue[h])
           accept == IsObservedFile(h, ev) /\ PastDebounce(now, last_reload[h])
       IN /\ queue' = [queue EXCEPT ![h] = Tail(@)]
          /\ last_reload' = IF accept THEN [last_reload EXCEPT ![h] = now]
                            ELSE last_reload
          /\ th' = IF accept THEN SetThread(h, EnterReload(h, ev.src_path)) ELSE th
          /\ handled' = Append(handled,
                 [h |-> h, is_file |-> ev.is_file, src_path |-> ev.src_path,
                  arr |-> ev.arr, at |-> now, accepted |-> accept])
    /\ UNCHANGED << now, file_handler, file_name, pending, scene >>
    /\ UNCHANGED MailVars
    /\ UNCHANGED << observer, observed_file, observed_path, observer_watch, observers >>
    /\ UNCHANGED << n_opens, follows, loads, load_failed, last_tick >>

\* ---------------------------------------------------------------- the clock
\* A thread that can take its next step at once: everything but a blocked
\* acquire, a running subprocess or script, a running load and an idle loop.
Ready(t) ==
    \/ th[t].pc \in {"render", "nonzero", "locked", "follow", "reloader"}
    \/ th[t].pc = "acquire" /\ reload_lock = Free
    \/ t # UI /\ th[t].pc = "idle" /\ Running(t) /\ queue[t] # << >>

\* The clock is read by follow and by on_modified only, and only differences
\* of readings count: it is not advanced before the first session exists
\* nor once neither of the two can run again.
ClockRead(max_inputs) ==
    /\ \E h \in Handlers : Running(h)
    /\ \/ \E h \in Handlers : queue[h] # << >>
       \/ n_opens + Delivered < max_inputs

\* Time passes while no thread is ready.
Advance(max_inputs, max_steps) ==
    /\ UNCHANGED MeshVars
    /\ now + ClockStep <= max_steps * ClockStep
    /\ ClockRead(max_inputs)
    /\ \A t \in Threads : ~Ready(t)
    /\ now' = now + ClockStep
    /\ UNCHANGED << file_handler, file_name, pending, th, scene >>
    /\ UNCHANGED << MailVars, WatchVars >>
    /\ UNCHANGED << n_opens, follows, loads, load_failed, last_tick, handled >>

\* ------------------------------------------------------------ specification
ReloadStep(t) ==
    \/ PyExec(t) \/ PyRender(t) \/ Compile(t) \/ IgnoreExitStatus(t)
    \/ Acquire(t) \/ WriteRelease(t)

UIStep == ReloadStep(UI) \/ Follow \/ FileReloader \/ LoadDone

WatcherStep == \E h \in Handlers : OnModified(h) \/ ReloadStep(h)

Environment(max_inputs, max_steps) ==
    \/ \E f \in OpenChoices : Open(f, max_inputs)
    \/ \E h \in Handlers : \E ev \in EventChoices(h) : Arrive(h, ev, max_inputs)
    \/ Advance(max_inputs, max_steps)

Next == UIStep \/ WatcherStep \/ Environment(MaxInputs, MaxClockSteps)

Spec == Init /\ [][Next]_vars

NextWatch == UIStep \/ WatcherStep \/ Environment(MaxWatchInputs, MaxWatchClockSteps)

SpecWatch == Init /\ [][NextWatch]_vars

NextFair == UIStep \/ WatcherStep \/ Environment(MaxFairInputs, MaxFairClockSteps)

\* The Tk main loop runs every callback that is due and each thread that can
\* run gets the processor; the user, the file system and the clock owe
\* nothing.
SpecFair == Init /\ [][NextFair]_vars /\ WF_vars(UIStep) /\ WF_vars(WatcherStep)


\* ================================================================ claims
LoadedSeqs == { loads[i].seq : i \in DOMAIN loads }

\* C1. Mailbox coalescing: of the requests written one after the other with
\* no drain in between only the last is ever loaded, it is loaded once, the
\* load is of its path, and the mailbox is empty again only once it has been
\* loaded (so it is not dropped either).  In terms of the history: no
\* request is loaded twice; no overwritten request is loaded; a load is of
\* the path of the write that asked for it; a request still in the mailbox
\* has not been loaded; and when the mailbox is empty the latest write has
\* been loaded.
C1_Coalescing ==
    /\ \A i, j \in DOMAIN loads : loads[i].seq = loads[j].seq => i = j
    /\ \A i \in DOMAIN loads :
          /\ loads[i].seq \in DOMAIN writes
          /\ loads[i].seq \notin superseded
          /\ loads[i].path = writes[loads[i].seq].path
    /\ mail_seq # 0 => mail_seq = Len(writes) /\ mail_seq \notin LoadedSeqs
    /\ th[UI].pc = "loading" => th[UI].path = reload_file /\ Truthy(reload_file)
    /\ (reload_file = NoPath /\ writes # << >>) => Len(writes) \in LoadedSeqs

\* A then B (another path) were written with no drain in between, one tick
\* has loaded B, and the mailbox is empty.
C1_Witness ==
    \E a \in superseded :
        /\ a + 1 \in DOMAIN writes
        /\ writes[a + 1].path # writes[a].path
        /\ a + 1 \in LoadedSeqs
        /\ scene = << writes[a + 1].path >>
        /\ reload_file = NoPath
        /\ last_tick = "loaded"

\* C2. A load that fails inside file_reloader, for a request a watcher
\* posted, leaves the lock released and the poll loop scheduled.
C2_LoopSurvivesFailedLoad ==
    (last_tick = "failed" /\ mail_seq # 0 /\ writes[mail_seq].by # UI)
        => (reload_lock # UI /\ pending > 0)

\* C3. While the Tk thread is inside load_file_in_viewer it does not hold
\* reload_lock.
C3_LockNotHeldAcrossLoad == th[UI].pc = "loading" => reload_lock # UI

\* C4. A call of file_reloader that finds reload_lock held by a watcher
\* thread loads nothing, leaves the mailbox and the lock as they are, ends at
\* once, and has scheduled itself again.
C4_NonBlockingPoll ==
    [][ (FileReloader /\ reload_lock \in Handlers) =>
          /\ UNCHANGED << reload_file, mail_seq, reload_lock, scene, loads >>
          /\ th'[UI] = Idle
          /\ pending' > 0
          /\ pending' = IF th[UI].pc = "idle" THEN pending ELSE pending + 1
      ]_vars

\* A timer tick has just found the lock held by a watcher that is about to
\* write, with an older request still in the mailbox.
C4_Witness ==
    /\ last_tick = "skipped"
    /\ reload_lock \in Handlers
    /\ th[UI].pc = "idle"
    /\ pending > 0
    /\ Truthy(reload_file)

\* The latest write has not been followed by a load of it.
Unserved == writes # << >> /\ Len(writes) \notin LoadedSeqs

OnObservedFile(i) ==
    handled[i].is_file /\ handled[i].src_path = observed_file[handled[i].h]

\* Entries i and j are two such events of one session, i dispatched first.
SameSession(i, j) ==
    /\ i < j
    /\ handled[i].h = handled[j].h
    /\ OnObservedFile(i)
    /\ OnObservedFile(j)

\* C6. Debounce within the window: two FileModified events on the observed
\* file that arrive less than MINIMUM_RELOAD_TIME apart produce exactly one
\* reload.  The sentence is read for a pair whose first event is reloaded
\* (of two events that both fall into the window of an earlier reload or of
\* follow, none can be meant to reload): the second one is then not reloaded.
C6_OneReloadWithinWindow ==
    \A i, j \in DOMAIN handled :
        ( /\ SameSession(i, j)
          /\ handled[j].arr - handled[i].arr < MINIMUM_RELOAD_TIME
          /\ handled[i].accepted )
        => ~handled[j].accepted

\* C7. Debounce beyond the window: two FileModified events on the observed
\* file that arrive more than MINIMUM_RELOAD_TIME apart produce two reloads,
\* each setting last_reload to its own arrival time.  Read, as C6, for a pair
\* whose first event is reloaded.
C7_TwoReloadsBeyondWindow ==
    \A i, j \in DOMAIN handled :
        ( /\ SameSession(i, j)
          /\ handled[j].arr - handled[i].arr > MINIMUM_RELOAD_TIME
          /\ handled[i].accepted )
        => /\ handled[j].accepted
           /\ handled[i].at = handled[i].arr
           /\ handled[j].at = handled[j].arr

\* C8. Directory-level filtering: on_modified for an event that is not a
\* FileModifiedEvent on exactly the observed file (a sibling file, the
\* directory) calls no reload, and leaves last_reload and the mailbox as
\* they are.
C8_SiblingsFiltered ==
    [][ \A h \in Handlers :
          ( /\ OnModified(h)
            /\ \/ ~Head(queue[h]).is_file
               \/ Head(queue[h]).src_path # observed_file[h] )
          => /\ UNCHANGED << last_reload, reload_file, mail_seq, reload_lock, writes >>
             /\ th'[h] = Idle
      ]_vars

\* The generated mesh file beside a followed .scad file was reported after
\* the debounce window had passed, and was ignored.
C8_Witness ==
    \E i \in DOMAIN handled :
        /\ handled[i].is_file
        /\ handled[i].src_path = TempStl(observed_file[handled[i].h])
        /\ handled[i].src_path # observed_file[handled[i].h]
        /\ PastDebounce(handled[i].at, last_reload[handled[i].h])
        /\ ~handled[i].accepted
        /\ th[handled[i].h] = Idle

\* ------------------------------------------------------------ the sessions
RunningObservers == { o \in DOMAIN observers : observers[o].state = "running" }

\* follow calls i and j are the last two on one handler, on different paths.
FollowedTwice(i, j) ==
    /\ i < j
    /\ follows[i].h = follows[j].h
    /\ follows[i].path # follows[j].path
    /\ \A k \in DOMAIN follows : k > i /\ k # j => follows[k].h # follows[i].h

\* C9. After follow(p1) and follow(p2) on one handler, p1 # p2, the handler
\* has exactly one running observer, created by the second call and watching
\* the parent directory of p2, and the observer of the first call is stopped.
C9_SessionReplaced ==
    \A i, j \in DOMAIN follows :
        FollowedTwice(i, j) =>
            LET h == follows[j].h IN
            /\ observer[h] # 0
            /\ observer[h] # follows[i].obs
            /\ observers[observer[h]].state = "running"
            /\ observers[observer[h]].watches = {Watch(DirPath(Parent(follows[j].path)))}
            /\ observed_file[h] = follows[j].path
            /\ observers[follows[i].obs].state = "stopped"
            /\ Cardinality({ o \in RunningObservers : observers[o].owner = h }) = 1

\* Every call of Controller.open so far has returned (none is running, none
\* was left by an exception).
OpensReturned ==
    /\ th[UI].pc = "idle"
    /\ Len(follows) = n_opens
    /\ \A k \in DOMAIN follows : follows[k].ok

\* C10. After any sequence of Controller.open calls at most one observer is
\* running in the whole application, and it is the current file_handler's.
C10_OneActiveWatch ==
    OpensReturned =>
        /\ Cardinality(RunningObservers) <= 1
        /\ \A o \in RunningObservers : observers[o].owner = file_handler

\* ------------------------------------------------------ the handler chain
\* C11. A compiler run that exits with a non-zero status is fatal for the
\* reload attempt: from the point where subprocess.run has returned such a
\* status, the thread's next step is the error leaving reload (to the
\* caller: open is abandoned, on_modified's thread ends), not the reload
\* going on to the mailbox.
C11_CompilerFailureFatal ==
    [][ \A t \in Threads :
          th[t].pc = "nonzero" => th'[t].pc = "nonzero" \/ th'[t] = Raise(t)
      ]_vars

\* The positions of a thread inside a handler's reload.
ChainPcs == {"exec", "render", "compile", "nonzero", "acquire", "locked"}

\* The first step of the chain of each handler.
ChainStart(cls) ==
    CASE cls = "Python" -> "exec"
      [] cls = "Scad" -> "compile"
      [] OTHER -> "acquire"

\* The output path of the last conversion step of each handler's chain for
\* the file p.
ExpectedPost(cls, p) ==
    CASE cls = "Python" -> TempStl(TempScad(p))
      [] cls = "Scad" -> TempStl(p)
      [] OTHER -> p

\* C13. Handler chain steps in order.  A reload through the '.py' handler
\* starts with the module exec, through the '.scad' handler with the
\* compiler, through the default handler with the mailbox post; the steps
\* follow one another as exec, render, compile, post (or the error leaves
\* the reload); and the path posted is the output path of the handler's last
\* conversion step, the file itself for the default handler.
C13_ChainInOrder ==
    [][ \A t \in Threads :
          LET cls == IF t = UI THEN file_handler' ELSE t
              file == IF t = UI THEN file_name' ELSE observed_file[t]
              from == th[t].pc
              to == th'[t].pc
              left == th'[t] = Raise(t)
          IN /\ (from \notin ChainPcs /\ to \in ChainPcs) =>
                    /\ from = "idle"
                    /\ to = ChainStart(cls)
                    /\ th'[t].path = file
             /\ (from = "exec" /\ to # from) => to = "render" \/ left
             /\ (from = "render" /\ to # from) =>
                    to = "compile" /\ th'[t].path = TempScad(th[t].path)
             /\ (from = "compile" /\ to # from) =>
                    \/ left
                    \/ to = "nonzero"
                    \/ to = "acquire" /\ th'[t].path = TempStl(th[t].path)
             /\ (from = "nonzero" /\ to # from) =>
                    to = "acquire" /\ th'[t].path = TempStl(th[t].path)
             /\ (from = "acquire" /\ to # from) =>
                    to = "locked" /\ th'[t].path = th[t].path
             /\ (from = "locked" /\ to # from) =>
                    /\ to \notin ChainPcs
                    /\ reload_file' = ExpectedPost(cls, file)
      ]_vars

\* A '.py' file was opened, and the mesh generated from it by the two
\* conversions has been loaded.
C13_Witness ==
    /\ file_handler = "Python"
    /\ \E i \in DOMAIN loads :
          /\ loads[i].path = TempStl(TempScad(file_name))
          /\ writes[loads[i].seq].by = UI
    /\ scene = << TempStl(TempScad(file_name)) >>

\* ------------------------------------------------------------- the dispatch
\* Dispatch is followed over file names whose suffixes differ in letter case
\* only, and over one that no handler is registered for.
MaxDispatchInputs == 2
MaxDispatchClockSteps == 2

DispatchChoices ==
    OpenChoices \cup { Path("a", "model", ".PY"), Path("a", "shape", ".Scad"),
                       Path("a", "notes", ".txt") }

NextDispatch ==
    \/ UIStep
    \/ WatcherStep
    \/ \E f \in DispatchChoices : Open(f, MaxDispatchInputs)
    \/ \E h \in Handlers : \E ev \in EventChoices(h) : Arrive(h, ev, MaxDispatchInputs)
    \/ Advance(MaxDispatchInputs, MaxDispatchClockSteps)

SpecDispatch == Init /\ [][NextDispatch]_vars

\* str.lower on the suffixes in use.
LowerSuffix(x) ==
    CASE x = ".PY" -> ".py"
      [] x = ".Scad" -> ".scad"
      [] OTHER -> x

\* The handler a case-insensitive lookup with a default gives.
HandlerOfSuffix(x) ==
    CASE LowerSuffix(x) = ".py" -> "Python"
      [] LowerSuffix(x) = ".scad" -> "Scad"
      [] OTHER -> "Default"

\* C12. Dispatch is case-insensitive with a default: the handler open has
\* looked up for the file the dialog returned is the scripted-model handler
\* for a suffix '.py' in any letter case, the intermediate-geometry handler
\* for '.scad' in any letter case, and the default handler otherwise.
C12_DispatchCaseInsensitive ==
    n_opens > 0 => file_handler = HandlerOfSuffix(file_name.suffix)

\* ----------------------------------------------------- the Model and Mesh
\* The calls of Model and Mesh, made on a scene that starts as the unit cube,
\* with one mesh file to read.
InitMesh ==
    /\ ControllerInit
    /\ file_mesh \in MeshChoices
    /\ data = << Mesh(UnitCubeMesh.vertices, UnitCubeMesh.faces) >>
    /\ ret = NoCall

\* Model.clear
ModelClear ==
    /\ data # << >>
    /\ data' = << >>
    /\ ret' = NoCall
    /\ UNCHANGED << ControllerVars, file_mesh >>

\* Model.load_file: read_mesh, then Mesh(vertices, faces) is appended.
ModelLoadFile ==
    /\ Len(data) < MaxMeshes
    /\ LET mesh == Mesh(file_mesh.vertices, file_mesh.faces) IN
       /\ data' = Append(data, mesh)
       /\ ret' = [call |-> "Mesh", mesh |-> mesh, value |-> mesh.bounding_box]
    /\ UNCHANGED << ControllerVars, file_mesh >>

\* data[i].get_line_segments(), with the arithmetic of the build.
CallGetLineSegments(i, arithmetic) ==
    /\ i \in DOMAIN data
    /\ ret' = [call |-> "get_line_segments", mesh |-> data[i],
               arithmetic |-> arithmetic,
               result |-> get_line_segments(data[i], arithmetic)]
    /\ UNCHANGED << ControllerVars, file_mesh, data >>

\* data[i].get_bounding_box()
CallMeshGetBoundingBox(i) ==
    /\ i \in DOMAIN data
    /\ ret' = [call |-> "Mesh.get_bounding_box", mesh |-> data[i],
               value |-> Mesh_get_bounding_box(data[i].vertices, data[i].faces)]
    /\ UNCHANGED << ControllerVars, file_mesh, data >>

\* Model.get_bounding_box(): the list returned is data[0].bounding_box, which
\* the loop has written into.
CallModelGetBoundingBox ==
    /\ data # << >>
    /\ LET bbox == Widen(data[1].bounding_box, data, 2) IN
       /\ data' = [data EXCEPT ![1].bounding_box = bbox]
       /\ ret' = [call |-> "Model.get_bounding_box", value |-> bbox]
    /\ UNCHANGED << ControllerVars, file_mesh >>

NextMesh ==
    \/ ModelClear
    \/ ModelLoadFile
    \/ \E i \in 1..MaxMeshes : \E arithmetic \in Arithmetics :
          CallGetLineSegments(i, arithmetic)
    \/ \E i \in 1..MaxMeshes : CallMeshGetBoundingBox(i)
    \/ CallModelGetBoundingBox

SpecMesh == InitMesh /\ [][NextMesh]_vars

\* The distinct unordered pairs of cyclically consecutive vertex indices
\* over all faces.
DistinctEdges(faces) ==
    UNION { { { faces[f][i], faces[f][(i % Len(faces[f])) + 1] } :
                i \in DOMAIN faces[f] } : f \in DOMAIN faces }

\* C14. Unique-edge extraction: get_line_segments returns as many segments
\* as the faces have distinct unordered pairs of cyclically consecutive
\* vertex indices (5 for two triangles sharing one edge, 18 for the unit
\* cube).
C14_UniqueEdges ==
    ret.call = "get_line_segments" =>
        /\ ~ret.result.raised
        /\ Cardinality(ret.result.value) = Cardinality(DistinctEdges(ret.mesh.faces))

\* The vertex indices at least one face refers to.
Referenced(faces) == UNION { Elements(faces[f]) : f \in DOMAIN faces }

\* Per axis, (min, max) of the coordinate over the referenced vertices.
ReferencedBox(vertices, faces) ==
    [i \in 1..3 |->
        << Min({ vertices[k][i] : k \in Referenced(faces) }),
           Max({ vertices[k][i] : k \in Referenced(faces) }) >>]

\* C15. Bounding box over referenced vertices only: the box Mesh computes,
\* at construction (Mesh.bounding_box) and in get_bounding_box, holds for
\* each of the 3 axes the (min, max) of that coordinate over exactly the
\* vertices some face refers to.
C15_BoxOfReferencedVertices ==
    ret.call \in {"Mesh", "Mesh.get_bounding_box"} =>
        ret.value = ReferencedBox(ret.mesh.vertices, ret.mesh.faces)

\* A mesh was built from a file in which a vertex no face refers to lies
\* outside the box of the others.
C15_Witness ==
    /\ ret.call = "Mesh"
    /\ \E k \in DOMAIN ret.mesh.vertices :
          /\ k \notin Referenced(ret.mesh.faces)
          /\ \E i \in 1..3 :
                \/ ret.mesh.vertices[k][i] > ret.mesh.bounding_box[i][2]
                \/ ret.mesh.vertices[k][i] < ret.mesh.bounding_box[i][1]

\* C18. Scene bounding box does not mutate meshes: after a call of
\* Model.get_bounding_box on a scene of two or more meshes, the bounding_box
\* of every mesh of the scene, the first included, is the one computed at
\* its construction.
C18_SceneBoxLeavesMeshes ==
    (ret.call = "Model.get_bounding_box" /\ Len(data) >= 2) =>
        \A i \in DOMAIN data :
            data[i].bounding_box =
                Mesh_get_bounding_box(data[i].vertices, data[i].faces)

\* C19. Segment endpoints match the edge indices: each segment
\* get_line_segments returns for a canonical edge (i, j), i < j, is the pair
\* of positions (vertices[i], vertices[j]).
C19_SegmentEndpoints ==
    ret.call = "get_line_segments" =>
        \A r \in ret.result.value :
            r.segment = << ret.mesh.vertices[r.edge[1]], ret.mesh.vertices[r.edge[2]] >>

\* ------------------------------------------------------------ the poll loop
\* C16. Exactly one poll loop: at most one file_reloader callback is
\* scheduled on the Tk thread at any time, however many files have been
\* opened.
C16_OnePollLoop == pending <= 1

\* No modification event has been accepted by any session.
NoAccepted == \A i \in DOMAIN handled : ~handled[i].accepted

\* The loads made for the latest write into the mailbox.
LoadsOfLatest == { i \in DOMAIN loads : loads[i].seq = Len(writes) }

CompilerOutput(file_path) == TempStl(file_path)

\* C17. No read/write race on the generated mesh file: the Tk thread is
\* never inside load_file_in_viewer, reading a file, while a dispatch
\* thread's compiler run (started by an accepted event) is writing that
\* file.
C17_NoRaceOnGeneratedFile ==
    \A h \in Handlers :
        ~ ( /\ th[UI].pc = "loading"
            /\ th[h].pc = "compile"
            /\ th[UI].path = CompilerOutput(th[h].path) )

====
